---- MODULE Spec2Model ----
(***************************************************************************)
(* Model of the two plotting scripts of the repository:                    *)
(*   script "B": polEmissivity_vs_latitude.py     (dual-polarization plot) *)
(*   script "A": emissivity_vs_elevation(-checkpoint).py (single file)     *)
(* Each run is a straight line of steps; pc names the step to run next.    *)
(*                                                                         *)
(* Numbers.  Incidence angles, bin widths and emissivities are fixed-point *)
(* integers in hundredths (10.05 degrees is 1005, emissivity 0.55 is 55),  *)
(* and arithmetic is exact: binary floating-point rounding of np.arange    *)
(* and of the group statistics is not modelled.  A float that pandas may   *)
(* set to NaN is a record [nan, num, den] standing for num/den.            *)
(***************************************************************************)
EXTENDS Integers, Sequences, FiniteSets, TLC

VARIABLES script, pc, err, saved,
          file, Hfile, Vfile, binSize,
          data, ovda_h, ovda_v, dfh, dfv,
          min_thi, max_thi, bins

vars == <<script, pc, err, saved, file, Hfile, Vfile, binSize,
          data, ovda_h, ovda_v, dfh, dfv, min_thi, max_thi, bins>>

(* ------------------------------------------------------------------ *)
(* Program constants                                                   *)
(* ------------------------------------------------------------------ *)
Overshoot == 5
DefaultBinSize == 10
emisField == "SURFACE_EMISSIVITY"
latField == "RAD_FOOTPRINT_LATITUDE"
incField == "INCIDENCE_ANGLE"
prField == "AVERAGE_PLANETARY_RADIUS"

(* ------------------------------------------------------------------ *)
(* Bounds and input value sets                                         *)
(* ------------------------------------------------------------------ *)
\* The H and the V table of an enumerated input hold at most MaxRows rows together.
MaxRows == 3
IncValues == {1000, 1010, 1013}
EmisValues == {50, 60}
LatValues == {0, 1}
BinSizes == {DefaultBinSize, 5}
LayerNames == {"h_pol", "v_pol"}

(* ------------------------------------------------------------------ *)
(* Floats that may be NaN                                              *)
(* ------------------------------------------------------------------ *)
NaN == [nan |-> TRUE, num |-> 0, den |-> 1]
Num(x) == [nan |-> FALSE, num |-> x, den |-> 1]
Frac(n, d) == [nan |-> FALSE, num |-> n, den |-> d]

(* ------------------------------------------------------------------ *)
(* Tables: a set of column names and a sequence of rows, each row a    *)
(* function from the column names to values                            *)
(* ------------------------------------------------------------------ *)
NoTable == [cols |-> {}, rows |-> <<>>]
HasField(t, f) == f \in t.cols
Column(t, f) == [i \in 1..Len(t.rows) |-> t.rows[i][f]]

RECURSIVE SeqSum(_)
SeqSum(s) == IF Len(s) = 0 THEN 0 ELSE s[1] + SeqSum(Tail(s))

SeqMin(s) == CHOOSE x \in {s[i] : i \in 1..Len(s)} : \A j \in 1..Len(s) : x <= s[j]
SeqMax(s) == CHOOSE x \in {s[i] : i \in 1..Len(s)} : \A j \in 1..Len(s) : x >= s[j]

\* Series.min() / Series.max(): NaN on an empty column
ColMin(t, f) == IF Len(t.rows) = 0 THEN NaN ELSE Num(SeqMin(Column(t, f)))
ColMax(t, f) == IF Len(t.rows) = 0 THEN NaN ELSE Num(SeqMax(Column(t, f)))

(* ------------------------------------------------------------------ *)
(* fiona.listlayers / gpd.read_file: a file is the sequence of its     *)
(* layers, each [name, table], the names distinct                      *)
(* ------------------------------------------------------------------ *)
listlayers(f) == [i \in 1..Len(f) |-> f[i].name]
HasLayer(f, layer) == \E i \in 1..Len(f) : f[i].name = layer
read_file(f, layer) == f[CHOOSE i \in 1..Len(f) : f[i].name = layer].table

(* ------------------------------------------------------------------ *)
(* DataFrame.sort_values(by): numpy's default sort is an insertion     *)
(* sort (stable) on arrays shorter than 16 elements                    *)
(* ------------------------------------------------------------------ *)
RECURSIVE InsertRow(_, _, _)
InsertRow(r, s, f) ==
    IF Len(s) = 0 THEN <<r>>
    ELSE IF r[f] < s[1][f] THEN <<r>> \o s
    ELSE <<s[1]>> \o InsertRow(r, Tail(s), f)

RECURSIVE SortRows(_, _)
SortRows(s, f) ==
    IF Len(s) = 0 THEN <<>>
    ELSE InsertRow(s[Len(s)], SortRows(SubSeq(s, 1, Len(s) - 1), f), f)

sort_values(t, f) == [cols |-> t.cols, rows |-> SortRows(t.rows, f)]

(* ------------------------------------------------------------------ *)
(* np.arange(start, stop, step), step > 0: start + k*step < stop       *)
(* ------------------------------------------------------------------ *)
ArangeLen(start, stop, step) ==
    IF stop <= start THEN 0 ELSE (stop - start + step - 1) \div step

arange(start, stop, step) ==
    [k \in 1..ArangeLen(start, stop, step) |-> start + (k - 1) * step]

(* ------------------------------------------------------------------ *)
(* The range filter of the V table                                     *)
(* ------------------------------------------------------------------ *)
\* <= max_thi written as < max_thi
InRangeStrictMax(x, lo, hi) == x >= lo /\ x < hi

InRange(x, lo, hi) == x >= lo /\ x <= hi

RECURSIVE FilterRows(_, _, _, _)
FilterRows(s, f, lo, hi) ==
    IF Len(s) = 0 THEN <<>>
    ELSE (IF InRange(s[1][f], lo, hi) THEN <<s[1]>> ELSE <<>>)
         \o FilterRows(Tail(s), f, lo, hi)

(* ------------------------------------------------------------------ *)
(* pd.cut(x, bins, right=True): ids = bins.searchsorted(x, "left"),    *)
(* ids 0 and len(bins) are NaN, otherwise (bins[ids-1], bins[ids]]     *)
(* ------------------------------------------------------------------ *)
NoBin == [nan |-> TRUE, lo |-> 0, hi |-> 0]
Interval(lo, hi) == [nan |-> FALSE, lo |-> lo, hi |-> hi]

\* pd.cut(..., right=False): searchsorted(x, "right")
SearchSortedRight(b, x) == Cardinality({i \in 1..Len(b) : b[i] <= x})

SearchSorted(b, x) == Cardinality({i \in 1..Len(b) : b[i] < x})

cut(x, b) ==
    LET id == SearchSorted(b, x)
    IN  IF id = 0 \/ id = Len(b) THEN NoBin ELSE Interval(b[id], b[id + 1])

WithColumn(t, name, vals) ==
    [cols |-> t.cols \cup {name},
     rows |-> [i \in 1..Len(t.rows) |-> (name :> vals[i]) @@ t.rows[i]]]

(* ------------------------------------------------------------------ *)
(* groupby("BIN")[f].transform("mean" | "std"): rows whose BIN is NaN  *)
(* are in no group and get NaN                                         *)
(* ------------------------------------------------------------------ *)
GroupOf(t, i) ==
    SelectSeq([j \in 1..Len(t.rows) |-> t.rows[j]],
              LAMBDA r : r["BIN"] = t.rows[i]["BIN"])

GroupValues(t, i, f) == LET g == GroupOf(t, i) IN [j \in 1..Len(g) |-> g[j][f]]

\* transform("sum") in place of transform("mean")
GroupSum(v) == Frac(SeqSum(v), 1)

GroupMean(v) == Frac(SeqSum(v), Len(v))

\* ddof = 0
GroupStdPopulation(v) ==
    LET n == Len(v)
        S == SeqSum(v)
    IN  Frac(SeqSum([j \in 1..n |-> (n * v[j] - S) * (n * v[j] - S)]), n * n * n)

\* std = sqrt(num/den): sum of squared deviations from the mean over n - 1 (ddof = 1)
GroupStd(v) ==
    LET n == Len(v)
        S == SeqSum(v)
    IN  IF n - 1 <= 0 THEN NaN
        ELSE Frac(SeqSum([j \in 1..n |-> (n * v[j] - S) * (n * v[j] - S)]),
                  n * n * (n - 1))

TransformMean(t, f) ==
    [i \in 1..Len(t.rows) |->
        IF t.rows[i]["BIN"].nan THEN NaN ELSE GroupMean(GroupValues(t, i, f))]

TransformStd(t, f) ==
    [i \in 1..Len(t.rows) |->
        IF t.rows[i]["BIN"].nan THEN NaN ELSE GroupStd(GroupValues(t, i, f))]

\* lines 104 / 110
AddBin(t, b) ==
    WithColumn(t, "BIN", [i \in 1..Len(t.rows) |-> cut(t.rows[i][incField], b)])

\* lines 105-108 / 111-114
AddAggregates(t) ==
    LET t1 == WithColumn(t, "MEAN_SURFACE_EMISSIVITY", TransformMean(t, emisField))
        t2 == WithColumn(t1, "STD_SURFACE_EMISSIVITY", TransformStd(t, emisField))
        t3 == WithColumn(t2, "MEAN_INCIDENCE_ANGLE", TransformMean(t, incField))
    IN  WithColumn(t3, "MEAN_RAD_FOOTPRINT_LATITUDE", TransformMean(t, latField))

(* ------------------------------------------------------------------ *)
(* Inputs                                                              *)
(* ------------------------------------------------------------------ *)
SeqsUpTo(S, n) == UNION {[1..k -> S] : k \in 0..n}

BinFields == {emisField, latField, incField}
AllFields == {emisField, latField, incField, prField}

MakeRow(i, e, l) == (incField :> i) @@ (emisField :> e) @@ (latField :> l)

RowValues == {MakeRow(i, e, l) : i \in IncValues, e \in EmisValues, l \in LatValues}

OneLayer(name, t) == <<[name |-> name, table |-> t]>>

\* A layer of one row whose every value tells which layer it is, with some columns
ColSets == {AllFields} \cup {AllFields \ {c} : c \in AllFields}
LayerValue(name) == IF name = "h_pol" THEN 1000 ELSE 1010
LayerOf(name, cols) ==
    [name |-> name,
     table |-> [cols |-> cols, rows |-> <<[c \in cols |-> LayerValue(name)]>>]]

\* Files of zero, one or two layers with distinct names
LayeredFiles ==
    {<<>>}
    \cup {<<LayerOf(n, c)>> : n \in LayerNames, c \in ColSets}
    \cup UNION {{<<LayerOf(n1, c1), LayerOf(n2, c2)>> :
                    n2 \in LayerNames \ {n1}, c1 \in ColSets, c2 \in ColSets} :
                 n1 \in LayerNames}

\* The H table of the scenario of the specification's section 8
ScenarioRows ==
    <<MakeRow(1000, 50, 0), MakeRow(1000, 60, 0), MakeRow(2000, 80, 0), MakeRow(3000, 90, 0)>>
ScenarioBinSize == 100 * DefaultBinSize

InitRun(s, f, hf, vf, b) ==
    /\ script = s
    /\ pc = "load"
    /\ err = "none"
    /\ saved = FALSE
    /\ file = f
    /\ Hfile = hf
    /\ Vfile = vf
    /\ binSize = b
    /\ data = NoTable
    /\ ovda_h = NoTable
    /\ ovda_v = NoTable
    /\ dfh = NoTable
    /\ dfv = NoTable
    /\ min_thi = NaN
    /\ max_thi = NaN
    /\ bins = <<>>

\* Script B on tables of up to MaxRows rows, every field present
InitTables ==
    \E h \in SeqsUpTo(RowValues, MaxRows) :
      \E v \in SeqsUpTo(RowValues, MaxRows - Len(h)) :
        \E b \in BinSizes :
          InitRun("B", <<>>,
                  OneLayer("h_pol", [cols |-> BinFields, rows |-> h]),
                  OneLayer("h_pol", [cols |-> BinFields, rows |-> v]), b)

InitScenario ==
    \E v \in {<<>>, ScenarioRows} :
        InitRun("B", <<>>,
                OneLayer("h_pol", [cols |-> BinFields, rows |-> ScenarioRows]),
                OneLayer("h_pol", [cols |-> BinFields, rows |-> v]), ScenarioBinSize)

\* Either script on files whose layers and columns vary
InitFiles ==
    \/ \E hf \in LayeredFiles : \E vf \in LayeredFiles :
          InitRun("B", <<>>, hf, vf, DefaultBinSize)
    \/ \E f \in LayeredFiles : InitRun("A", f, <<>>, <<>>, DefaultBinSize)

Init == InitTables \/ InitScenario \/ InitFiles

(* ------------------------------------------------------------------ *)
(* Script B: polEmissivity_vs_latitude.py main()                       *)
(* ------------------------------------------------------------------ *)
\* lines 87-90
LoadB ==
    /\ script = "B"
    /\ pc = "load"
    /\ IF Len(Hfile) = 0 \/ Len(Vfile) = 0
       THEN /\ pc' = "error"
            /\ err' = "IndexError"
            /\ UNCHANGED <<ovda_h, ovda_v>>
       ELSE LET Hlayer == listlayers(Hfile)[1]
                Vlayer == listlayers(Vfile)[1]
            IN  /\ ovda_v' = read_file(Vfile, Vlayer)
                /\ IF HasLayer(Hfile, Vlayer)
                   THEN /\ ovda_h' = read_file(Hfile, Vlayer)
                        /\ pc' = "sort"
                        /\ err' = err
                   ELSE /\ ovda_h' = ovda_h
                        /\ pc' = "error"
                        /\ err' = "LayerError"
    /\ UNCHANGED <<script, saved, file, Hfile, Vfile, binSize, data, dfh, dfv,
                   min_thi, max_thi, bins>>

\* lines 93-94
SortB ==
    /\ script = "B"
    /\ pc = "sort"
    /\ IF ~HasField(ovda_h, latField)
       THEN /\ pc' = "error"
            /\ err' = "KeyError"
            /\ UNCHANGED <<dfh, dfv>>
       ELSE /\ dfh' = sort_values(ovda_h, latField)
            /\ IF ~HasField(ovda_v, latField)
               THEN /\ pc' = "error"
                    /\ err' = "KeyError"
                    /\ dfv' = dfv
               ELSE /\ dfv' = sort_values(ovda_v, latField)
                    /\ pc' = "bins"
                    /\ err' = err
    /\ UNCHANGED <<script, saved, file, Hfile, Vfile, binSize, data, ovda_h, ovda_v,
                   min_thi, max_thi, bins>>

\* lines 97-99: np.arange raises ValueError when start or stop is NaN
BinEdges ==
    /\ script = "B"
    /\ pc = "bins"
    /\ IF ~HasField(dfh, incField)
       THEN /\ pc' = "error"
            /\ err' = "KeyError"
            /\ UNCHANGED <<min_thi, max_thi, bins>>
       ELSE /\ min_thi' = ColMin(dfh, incField)
            /\ max_thi' = ColMax(dfh, incField)
            /\ IF min_thi'.nan \/ max_thi'.nan
               THEN /\ pc' = "error"
                    /\ err' = "ValueError"
                    /\ bins' = bins
               ELSE /\ bins' = arange(min_thi'.num, max_thi'.num + Overshoot, binSize)
                    /\ pc' = "filter"
                    /\ err' = err
    /\ UNCHANGED <<script, saved, file, Hfile, Vfile, binSize, data, ovda_h, ovda_v,
                   dfh, dfv>>

\* line 100
FilterV ==
    /\ script = "B"
    /\ pc = "filter"
    /\ IF ~HasField(dfv, incField)
       THEN /\ pc' = "error"
            /\ err' = "KeyError"
            /\ dfv' = dfv
       ELSE /\ dfv' = [cols |-> dfv.cols,
                       rows |-> FilterRows(dfv.rows, incField, min_thi.num, max_thi.num)]
            /\ pc' = "cutH"
            /\ err' = err
    /\ UNCHANGED <<script, saved, file, Hfile, Vfile, binSize, data, ovda_h, ovda_v,
                   dfh, min_thi, max_thi, bins>>

\* lines 104-108
CutH ==
    /\ script = "B"
    /\ pc = "cutH"
    /\ IF ~HasField(dfh, emisField)
       THEN /\ dfh' = AddBin(dfh, bins)
            /\ pc' = "error"
            /\ err' = "KeyError"
       ELSE /\ dfh' = AddAggregates(AddBin(dfh, bins))
            /\ pc' = "cutV"
            /\ err' = err
    /\ UNCHANGED <<script, saved, file, Hfile, Vfile, binSize, data, ovda_h, ovda_v,
                   dfv, min_thi, max_thi, bins>>

\* lines 110-114
CutV ==
    /\ script = "B"
    /\ pc = "cutV"
    /\ IF ~HasField(dfv, emisField)
       THEN /\ dfv' = AddBin(dfv, bins)
            /\ pc' = "error"
            /\ err' = "KeyError"
       ELSE /\ dfv' = AddAggregates(AddBin(dfv, bins))
            /\ pc' = "plot"
            /\ err' = err
    /\ UNCHANGED <<script, saved, file, Hfile, Vfile, binSize, data, ovda_h, ovda_v,
                   dfh, min_thi, max_thi, bins>>

\* lines 117-150: the scatter, fill_between and marker series read these columns
PlotFieldsB ==
    {latField, emisField, "MEAN_RAD_FOOTPRINT_LATITUDE", "MEAN_SURFACE_EMISSIVITY",
     "STD_SURFACE_EMISSIVITY"}

PlotB ==
    /\ script = "B"
    /\ pc = "plot"
    /\ IF \E f \in PlotFieldsB : ~HasField(dfh, f) \/ ~HasField(dfv, f)
       THEN pc' = "error" /\ err' = "KeyError"
       ELSE pc' = "save" /\ err' = err
    /\ UNCHANGED <<script, saved, file, Hfile, Vfile, binSize, data, ovda_h, ovda_v,
                   dfh, dfv, min_thi, max_thi, bins>>

\* lines 152-153
SaveB ==
    /\ script = "B"
    /\ pc = "save"
    /\ saved' = TRUE
    /\ pc' = "done"
    /\ UNCHANGED <<script, err, file, Hfile, Vfile, binSize, data, ovda_h, ovda_v,
                   dfh, dfv, min_thi, max_thi, bins>>

(* ------------------------------------------------------------------ *)
(* Script A: emissivity_vs_elevation main()                            *)
(* ------------------------------------------------------------------ *)
\* lines 81-82
LoadA ==
    /\ script = "A"
    /\ pc = "load"
    /\ IF Len(file) = 0
       THEN /\ pc' = "error"
            /\ err' = "IndexError"
            /\ data' = data
       ELSE LET layer == listlayers(file)[1]
            IN  /\ data' = read_file(file, layer)
                /\ pc' = "plot"
                /\ err' = err
    /\ UNCHANGED <<script, saved, file, Hfile, Vfile, binSize, ovda_h, ovda_v,
                   dfh, dfv, min_thi, max_thi, bins>>

\* The scatter of line 91 left out: no column is read before the save
PlotASkipFields ==
    /\ script = "A"
    /\ pc = "plot"
    /\ pc' = "save"
    /\ UNCHANGED <<script, err, saved, file, Hfile, Vfile, binSize, data, ovda_h, ovda_v,
                   dfh, dfv, min_thi, max_thi, bins>>

\* lines 85-106
PlotA ==
    /\ script = "A"
    /\ pc = "plot"
    /\ IF ~HasField(data, emisField) \/ ~HasField(data, prField)
       THEN pc' = "error" /\ err' = "KeyError"
       ELSE pc' = "save" /\ err' = err
    /\ UNCHANGED <<script, saved, file, Hfile, Vfile, binSize, data, ovda_h, ovda_v,
                   dfh, dfv, min_thi, max_thi, bins>>

\* lines 107-108
SaveA ==
    /\ script = "A"
    /\ pc = "save"
    /\ saved' = TRUE
    /\ pc' = "done"
    /\ UNCHANGED <<script, err, file, Hfile, Vfile, binSize, data, ovda_h, ovda_v,
                   dfh, dfv, min_thi, max_thi, bins>>

Next ==
    \/ LoadB
    \/ SortB
    \/ BinEdges
    \/ FilterV
    \/ CutH
    \/ CutV
    \/ PlotB
    \/ SaveB
    \/ LoadA
    \/ PlotA
    \/ SaveA

Spec == Init /\ [][Next]_vars

(* ------------------------------------------------------------------ *)
(* Helpers of the properties                                           *)
(* ------------------------------------------------------------------ *)
Rows(t) == 1..Len(t.rows)
Binned(t) == "BIN" \in t.cols
Aggregated(t) == "STD_SURFACE_EMISSIVITY" \in t.cols
EdgesComputed == script = "B" /\ Len(bins) > 0
Filtered == script = "B" /\ pc \in {"cutH", "cutV", "plot", "save", "done"}

\* The rows of t that share row i's bin
BinMates(t, i) == {j \in Rows(t) : t.rows[j]["BIN"] = t.rows[i]["BIN"]}

RECURSIVE SumOver(_, _, _)
SumOver(t, J, f) ==
    IF J = {} THEN 0
    ELSE LET j == CHOOSE k \in J : TRUE
         IN  t.rows[j][f] + SumOver(t, J \ {j}, f)

RECURSIVE SumSqOver(_, _, _)
SumSqOver(t, J, f) ==
    IF J = {} THEN 0
    ELSE LET j == CHOOSE k \in J : TRUE
         IN  t.rows[j][f] * t.rows[j][f] + SumSqOver(t, J \ {j}, f)

\* How many rows of the sequence s are the row r on the columns cols
CountRow(s, cols, r) ==
    Cardinality({i \in 1..Len(s) : [c \in cols |-> s[i][c]] = r})

RowSet(t) == {t.rows[i] : i \in Rows(t)}

(* ------------------------------------------------------------------ *)
(* C1: once the bin edges are computed (H table not empty, bin width   *)
(* > 0) they are strictly increasing, the first edge is <= every H     *)
(* incidence angle and the last edge is >= every H incidence angle.    *)
(* ------------------------------------------------------------------ *)
C1_EdgesCoverRange ==
    EdgesComputed =>
        /\ \A k \in 1..(Len(bins) - 1) : bins[k] < bins[k + 1]
        /\ \A i \in Rows(dfh) : bins[1] <= dfh.rows[i][incField]
        /\ \A i \in Rows(dfh) : dfh.rows[i][incField] <= bins[Len(bins)]

(* ------------------------------------------------------------------ *)
(* C2: after the binning step every row of the H table and every       *)
(* retained row of the V table has a bin (its BIN is not NaN).         *)
(* ------------------------------------------------------------------ *)
C2_EveryRowBinned ==
    script = "B" =>
        /\ Binned(dfh) => \A i \in Rows(dfh) : ~dfh.rows[i]["BIN"].nan
        /\ Binned(dfv) => \A i \in Rows(dfv) : ~dfv.rows[i]["BIN"].nan

(* ------------------------------------------------------------------ *)
(* C3: after the range filter the V table holds exactly the loaded V   *)
(* rows whose incidence angle is in [min, max] of the H incidence      *)
(* column (each as often as it was loaded), and the H table still      *)
(* holds every loaded H row.                                           *)
(* ------------------------------------------------------------------ *)
C3_FilterExact ==
    Filtered =>
        LET lo == SeqMin(Column(ovda_h, incField))
            hi == SeqMax(Column(ovda_h, incField))
        IN  /\ \A i \in Rows(dfv) :
                  lo <= dfv.rows[i][incField] /\ dfv.rows[i][incField] <= hi
            /\ \A r \in RowSet(ovda_v) :
                  CountRow(dfv.rows, ovda_v.cols, r) =
                      IF lo <= r[incField] /\ r[incField] <= hi
                      THEN CountRow(ovda_v.rows, ovda_v.cols, r) ELSE 0
            /\ Len(dfh.rows) = Len(ovda_h.rows)
            /\ \A r \in RowSet(ovda_h) :
                  CountRow(dfh.rows, ovda_h.cols, r) = CountRow(ovda_h.rows, ovda_h.cols, r)

\* Some loaded V row was dropped, and a V row at the H maximum was kept
C3_Witness ==
    /\ Filtered
    /\ Len(dfv.rows) < Len(ovda_v.rows)
    /\ \E i \in Rows(dfv) : dfv.rows[i][incField] = max_thi.num

(* ------------------------------------------------------------------ *)
(* C4: a row whose incidence angle equals an interior bin edge e is in *)
(* the bin whose upper edge is e; every binned row of the H and of the *)
(* V table lies in (lower, upper] of two consecutive edges of the one  *)
(* edge sequence.                                                      *)
(* ------------------------------------------------------------------ *)
OnInteriorEdge(t, i) == \E k \in 2..(Len(bins) - 1) : t.rows[i][incField] = bins[k]

RightInclusive(t) ==
    Binned(t) =>
        /\ \A i \in Rows(t) : \A k \in 2..(Len(bins) - 1) :
              t.rows[i][incField] = bins[k] =>
                  t.rows[i]["BIN"] = [nan |-> FALSE, lo |-> bins[k - 1], hi |-> bins[k]]
        /\ \A i \in Rows(t) :
              ~t.rows[i]["BIN"].nan =>
                  /\ \E k \in 1..(Len(bins) - 1) :
                        /\ t.rows[i]["BIN"].lo = bins[k]
                        /\ t.rows[i]["BIN"].hi = bins[k + 1]
                  /\ t.rows[i]["BIN"].lo < t.rows[i][incField]
                  /\ t.rows[i][incField] <= t.rows[i]["BIN"].hi

C4_RightInclusive == script = "B" => RightInclusive(dfh) /\ RightInclusive(dfv)

\* Both tables are binned and each has a row on an interior edge
C4_Witness ==
    /\ script = "B"
    /\ Binned(dfh) /\ \E i \in Rows(dfh) : OnInteriorEdge(dfh, i)
    /\ Binned(dfv) /\ \E i \in Rows(dfv) : OnInteriorEdge(dfv, i)

(* ------------------------------------------------------------------ *)
(* C5: for every bin holding a row, the bin's mean emissivity is       *)
(* between the least and the greatest emissivity of its rows, its      *)
(* standard deviation is >= 0 when defined (std = sqrt(num/den)), and  *)
(* undefined when the bin holds exactly one row.                       *)
(* ------------------------------------------------------------------ *)
BinStatsSound(t) ==
    Aggregated(t) =>
        \A i \in Rows(t) :
            ~t.rows[i]["BIN"].nan =>
                LET J == BinMates(t, i)
                    m == t.rows[i]["MEAN_SURFACE_EMISSIVITY"]
                    sd == t.rows[i]["STD_SURFACE_EMISSIVITY"]
                IN  /\ ~m.nan
                    /\ m.den > 0
                    /\ \E j \in J : t.rows[j][emisField] * m.den <= m.num
                    /\ \E j \in J : m.num <= t.rows[j][emisField] * m.den
                    /\ ~sd.nan => sd.den > 0 /\ sd.num >= 0
                    /\ Cardinality(J) = 1 => sd.nan

C5_BinStatsSound == script = "B" => BinStatsSound(dfh) /\ BinStatsSound(dfv)

\* A bin of the H table holds two rows of different emissivity
C5_Witness ==
    /\ script = "B"
    /\ Aggregated(dfh)
    /\ \E i \in Rows(dfh) : \E j \in BinMates(dfh, i) :
          /\ ~dfh.rows[i]["BIN"].nan
          /\ dfh.rows[i][emisField] < dfh.rows[j][emisField]
          /\ ~dfh.rows[i]["STD_SURFACE_EMISSIVITY"].nan

(* ------------------------------------------------------------------ *)
(* C6: for the H table with incidence angles [10,10,20,30] and         *)
(* emissivities [0.5,0.6,0.8,0.9] and bin width 10, the two rows at 10 *)
(* share a bin of mean 0.55, the row at 20 is alone in a bin of mean   *)
(* 0.8 and the row at 30 is alone in a bin of mean 0.9.                *)
(* ------------------------------------------------------------------ *)
IsScenario ==
    /\ script = "B"
    /\ binSize = ScenarioBinSize
    /\ Aggregated(dfh)
    /\ Column(ovda_h, incField) = <<1000, 1000, 2000, 3000>>
    /\ Column(ovda_h, emisField) = <<50, 60, 80, 90>>

BinOfScenario(inc, size, meanEmis) ==
    \A i \in Rows(dfh) :
        dfh.rows[i][incField] = inc =>
            /\ ~dfh.rows[i]["BIN"].nan
            /\ BinMates(dfh, i) = {j \in Rows(dfh) : dfh.rows[j][incField] = inc}
            /\ Cardinality(BinMates(dfh, i)) = size
            /\ ~dfh.rows[i]["MEAN_SURFACE_EMISSIVITY"].nan
            /\ dfh.rows[i]["MEAN_SURFACE_EMISSIVITY"].num =
                   meanEmis * dfh.rows[i]["MEAN_SURFACE_EMISSIVITY"].den

C6_Scenario ==
    IsScenario =>
        /\ BinOfScenario(1000, 2, 55)
        /\ BinOfScenario(2000, 1, 80)
        /\ BinOfScenario(3000, 1, 90)

(* ------------------------------------------------------------------ *)
(* C7: a run in which a requested field is absent from a loaded table  *)
(* never gets to the save: the figure is saved only when every         *)
(* requested field is in every table the run loaded.                   *)
(* ------------------------------------------------------------------ *)
FieldMissing ==
    \/ script = "B" /\ ~(BinFields \subseteq ovda_h.cols /\ BinFields \subseteq ovda_v.cols)
    \/ script = "A" /\ ~({emisField, prField} \subseteq data.cols)

C7_NoSaveOnMissingField == FieldMissing => ~saved /\ pc \notin {"save", "done"}

\* The last field access of script B fails: the V table has no emissivity column
C7_Witness ==
    /\ script = "B"
    /\ pc = "error"
    /\ err = "KeyError"
    /\ Binned(dfv)
    /\ ~HasField(ovda_v, emisField)
    /\ ~saved

(* ------------------------------------------------------------------ *)
(* C8: after the load, each table is the first layer of its own file:  *)
(* the H table of Hfile, the V table of Vfile, the table of script A   *)
(* of file.                                                            *)
(* ------------------------------------------------------------------ *)
C8_LoaderReadsFirstLayer ==
    /\ (script = "B" /\ pc \notin {"load", "error"}) =>
           /\ ovda_v.cols = Vfile[1].table.cols /\ ovda_v.rows = Vfile[1].table.rows
           /\ ovda_h.cols = Hfile[1].table.cols /\ ovda_h.rows = Hfile[1].table.rows
    /\ (script = "A" /\ pc \notin {"load", "error"}) =>
           data.cols = file[1].table.cols /\ data.rows = file[1].table.rows

(* ------------------------------------------------------------------ *)
(* C9: a run of script B whose H table has zero rows (every field      *)
(* present in both tables) raises no error in the bin-edge and binning *)
(* steps.                                                              *)
(* ------------------------------------------------------------------ *)
C9_EmptyHCompletes ==
    (/\ script = "B"
     /\ BinFields \subseteq dfh.cols
     /\ BinFields \subseteq dfv.cols
     /\ Len(dfh.rows) = 0) => pc # "error"

(* ------------------------------------------------------------------ *)
(* C10 as stated: the standard deviation of a bin is the population    *)
(* standard deviation, std^2 = (n*sum(x^2) - sum(x)^2) / n^2, which is *)
(* 0 for a bin of one row.                                             *)
(* ------------------------------------------------------------------ *)
PopulationStd(t) ==
    Aggregated(t) =>
        \A i \in Rows(t) :
            ~t.rows[i]["BIN"].nan =>
                LET J == BinMates(t, i)
                    n == Cardinality(J)
                    S == SumOver(t, J, emisField)
                    Q == SumSqOver(t, J, emisField)
                    sd == t.rows[i]["STD_SURFACE_EMISSIVITY"]
                IN  /\ ~sd.nan
                    /\ sd.num * (n * n) = (n * Q - S * S) * sd.den

C10_PopulationStd == script = "B" => PopulationStd(dfh) /\ PopulationStd(dfv)

(* ------------------------------------------------------------------ *)
(* C10 amended: the standard deviation of a bin is the sample standard *)
(* deviation, std^2 = (n*sum(x^2) - sum(x)^2) / (n*(n-1)), and it is   *)
(* undefined (NaN) for a bin of one row.                               *)
(* ------------------------------------------------------------------ *)
SampleStd(t) ==
    Aggregated(t) =>
        \A i \in Rows(t) :
            ~t.rows[i]["BIN"].nan =>
                LET J == BinMates(t, i)
                    n == Cardinality(J)
                    S == SumOver(t, J, emisField)
                    Q == SumSqOver(t, J, emisField)
                    sd == t.rows[i]["STD_SURFACE_EMISSIVITY"]
                IN  IF n = 1 THEN sd.nan
                    ELSE /\ ~sd.nan
                         /\ sd.den > 0
                         /\ sd.num * (n * (n - 1)) = (n * Q - S * S) * sd.den

C10_SampleStd == script = "B" => SampleStd(dfh) /\ SampleStd(dfv)

\* The H and the V table each have a bin of exactly one row
C10_Witness ==
    /\ script = "B"
    /\ Aggregated(dfh) /\ Aggregated(dfv)
    /\ \E i \in Rows(dfh) :
          ~dfh.rows[i]["BIN"].nan /\ Cardinality(BinMates(dfh, i)) = 1
    /\ \E i \in Rows(dfv) :
          ~dfv.rows[i]["BIN"].nan /\ Cardinality(BinMates(dfv, i)) = 1

====
